---- MODULE Spec2Model ----
(***************************************************************************)
(* Model of hikyuu/house.py: the strategy-house manager (HouseManager).    *)
(*                                                                         *)
(* Strings are sequences of tokens: a token is either a separator          *)
(* (".", "/", " ") or a word without separators, so "a.sg.e1" is           *)
(* <<"a", ".", "sg", ".", "e1">>.  Formatting, splitting, trimming and     *)
(* path operations are computed on these sequences.                        *)
(***************************************************************************)
EXTENDS Integers, Sequences, FiniteSets, TLC

VARIABLES
    db,       \* the committed rows of stockhouse.db: [config, houses, parts]
    sess,     \* HouseManager._session and the scoped session behind it
    fs,       \* the directory trees on disk, per house directory
    syspath,  \* sys.path entries added by this process
    ready,    \* the module has been imported (setup_house has completed)
    last,     \* the last completed call: what it was, how it ended, what it did
    nops      \* number of steps taken so far

vars == <<db, sess, fs, syspath, ready, last, nops>>

\* ------------------------------------------------------------ bounds

MaxOps == 4

\* ------------------------------------------------------------ strings

Dot == "."
Slash == "/"
Space == " "
Hole == "{}"

\* Python None (a NULL column), as opposed to the string 'None'
NULL == <<"<null>">>
NoneStr == <<"None">>

\* str.format: each "{}" of the template is replaced by the next argument
RECURSIVE Format(_, _)
Format(template, args) ==
    IF template = <<>> THEN <<>>
    ELSE IF Head(template) = Hole
         THEN Head(args) \o Format(Tail(template), Tail(args))
         ELSE <<Head(template)>> \o Format(Tail(template), args)

\* str.split(sep): the pieces between the separators (always at least one)
RECURSIVE SplitFrom(_, _, _)
SplitFrom(s, sep, cur) ==
    IF s = <<>> THEN <<cur>>
    ELSE IF Head(s) = sep
         THEN <<cur>> \o SplitFrom(Tail(s), sep, <<>>)
         ELSE SplitFrom(Tail(s), sep, Append(cur, Head(s)))

split(s, sep) == SplitFrom(s, sep, <<>>)

RECURSIVE lstrip(_)
lstrip(s) == IF s # <<>> /\ Head(s) = Space THEN lstrip(Tail(s)) ELSE s

RECURSIVE rstrip(_)
rstrip(s) ==
    IF s # <<>> /\ s[Len(s)] = Space THEN rstrip(SubSeq(s, 1, Len(s) - 1)) ELSE s

\* str.strip()
strip(s) == rstrip(lstrip(s))

startswith(s, tok) == s # <<>> /\ Head(s) = tok

\* os.path.basename / os.path.dirname on "/"-separated paths
LastPiece(pieces) == pieces[Len(pieces)]

basename(path) == LastPiece(split(path, Slash))

RECURSIVE JoinWith(_, _)
JoinWith(pieces, sep) ==
    IF pieces = <<>> THEN <<>>
    ELSE IF Len(pieces) = 1 THEN pieces[1]
    ELSE pieces[1] \o <<sep>> \o JoinWith(Tail(pieces), sep)

dirname(path) ==
    LET ps == split(path, Slash) IN JoinWith(SubSeq(ps, 1, Len(ps) - 1), Slash)

\* ------------------------------------------------------------ the disk

\* The part taxonomy, in the iteration order of part_dict
PartKeys ==
    << <<"af">>, <<"cn">>, <<"ev">>, <<"mm">>, <<"pg">>, <<"se">>, <<"sg">>,
       <<"sp">>, <<"st">>, <<"prtflo">>, <<"sys">> >>

NoPrefixParts == { <<"prtflo">>, <<"sys">> }

\* part_dict[part]: the sub-directory of a house that holds the parts of a type
part_dict(part) ==
    IF part \in NoPrefixParts THEN part ELSE <<"part", Slash>> \o part

\* What importing one candidate's part.py gives: how the import ends, the
\* module's variables, and the values of author, version and part.__doc__.
\* An attribute value is [isstr, val]: a non-string value has no strip().
StrVal(v) == [isstr |-> TRUE, val |-> v]
IntVal == [isstr |-> FALSE, val |-> <<"7">>]

Module(load, mvars, author, version, doc, factory) ==
    [load |-> load, vars |-> mvars, author |-> author, version |-> version,
     doc |-> doc, factory |-> factory]

M_full ==
    Module("ok", {"part", "author", "version"}, StrVal(<<Space, "bob", Space>>),
           StrVal(<<"1", Dot, "0">>), <<Space, "doc", Space, "text", Space>>, "f_full")
M_bare == Module("ok", {"part"}, StrVal(<<>>), StrVal(<<>>), NULL, "f_bare")
M_ver ==
    Module("ok", {"part", "version"}, StrVal(<<>>), StrVal(<<Space, "2">>),
           <<Space, Space>>, "f_ver")
M_auth ==
    Module("ok", {"part", "author"}, StrVal(<<"eve">>), StrVal(<<>>), <<>>, "f_auth")
M_nopart == Module("ok", {"author"}, StrVal(<<"bob">>), StrVal(<<>>), NULL, "none")
M_badattr == Module("ok", {"part", "author"}, IntVal, StrVal(<<>>), NULL, "f_bad")
M_missing == Module("ModuleNotFoundError", {}, StrVal(<<>>), StrVal(<<>>), NULL, "none")
M_broken == Module("SyntaxError", {}, StrVal(<<>>), StrVal(<<>>), NULL, "none")

Entry(name, isdir, mod) == [name |-> name, is_dir |-> isdir, mod |-> mod]

\* The trees a house directory can hold: ls maps a sub-directory to its
\* entries in os.scandir order, files are the paths that are regular files.
TreeIds == {"T1", "T2", "T3"}

TreeContent(t) ==
    CASE t = "T1" ->
           [ls |-> (<<"part", Slash, "sg">> :>
                       << Entry(<<"e1">>, TRUE, M_full),
                          Entry(<<Dot, "git">>, TRUE, M_missing),
                          Entry(<<"e2">>, TRUE, M_broken),
                          Entry(<<"__pycache__">>, TRUE, M_missing),
                          Entry(<<"readme">>, FALSE, M_missing) >>)
                   @@ (<<"sys">> :> << Entry(<<"e1">>, TRUE, M_bare) >>),
            files |-> {}]
      [] t = "T2" ->
           [ls |-> (<<"part", Slash, "sg">> :>
                       << Entry(<<"e1">>, TRUE, M_broken),
                          Entry(<<"e3">>, TRUE, M_nopart) >>)
                   @@ (<<"part", Slash, "st">> :>
                       << Entry(<<"e1">>, TRUE, M_badattr),
                          Entry(<<"e2">>, TRUE, M_missing) >>)
                   @@ (<<"prtflo">> :> << Entry(<<"e1">>, TRUE, M_ver) >>),
            files |-> {}]
      [] t = "T3" ->
           [ls |-> (<<"part", Slash, "sg">> :> << Entry(<<"e1">>, TRUE, M_auth) >>),
            files |-> { <<"sys">> }]

\* self.remote_cache_dir ("~/.hikyuu/house_cache")
CacheDir == <<"cache">>

HouseNames == { <<"default">>, <<"a">> }
Urls == { <<"u1">>, <<"u2">> }
Branches == { <<"master">> }
DefaultUrl == <<"u1">>

LocalPaths == { <<"d1", Slash, "a">> }

RemoteDir(name) == Format(<<Hole, Slash, Hole>>, <<CacheDir, name>>)

\* The house directories of the model
Dirs == { RemoteDir(n) : n \in HouseNames } \cup LocalPaths

Absent == "absent"

\* os.path.lexists of a house directory
lexists(fsv, path) == path \in Dirs /\ fsv[path] # Absent

IsPrefix(p, s) == Len(p) <= Len(s) /\ SubSeq(s, 1, Len(p)) = p

\* os.scandir(path): the entries of the directory, or the OSError it raises
scandir(fsv, path) ==
    LET under == { d \in Dirs : IsPrefix(d \o <<Slash>>, path) /\ fsv[d] # Absent }
    IN IF under = {} THEN [err |-> "FileNotFoundError", entries |-> <<>>]
       ELSE LET d == CHOOSE x \in under : TRUE
                rel == SubSeq(path, Len(d) + 2, Len(path))
                tree == TreeContent(fsv[d])
            IN IF rel \in tree.files
               THEN [err |-> "NotADirectoryError", entries |-> <<>>]
               ELSE IF rel \in DOMAIN tree.ls
               THEN [err |-> "None", entries |-> tree.ls[rel]]
               ELSE [err |-> "FileNotFoundError", entries |-> <<>>]

\* The first directory of sys.path that holds a package of that name
RECURSIVE FindPackage(_, _, _)
FindPackage(fsv, sp, base) ==
    IF sp = <<>> THEN NULL
    ELSE LET d == Format(<<Hole, Slash, Hole>>, <<Head(sp), base>>)
         IN IF lexists(fsv, d) THEN d ELSE FindPackage(fsv, Tail(sp), base)

\* importlib.import_module(module_name) of a dotted "<pkg>. ... .<entry>.part":
\* the module found by walking the packages below the first sys.path hit
import_module(fsv, sp, module_name) ==
    LET segs == split(module_name, Dot)
        n == Len(segs)
        pkg == IF n >= 1 THEN FindPackage(fsv, sp, segs[1]) ELSE NULL
    IN IF n < 3 \/ pkg = NULL \/ segs[n] # <<"part">> THEN M_missing
       ELSE LET rel == JoinWith(SubSeq(segs, 2, n - 2), Slash)
                ls == scandir(fsv, pkg \o <<Slash>> \o rel)
                hits == { i \in 1..Len(ls.entries) :
                            ls.entries[i].name = segs[n - 1] /\ ls.entries[i].is_dir }
            IN IF ls.err # "None" \/ hits = {} THEN M_missing
               ELSE ls.entries[CHOOSE i \in hits : TRUE].mod

\* ------------------------------------------------------------ the store

HouseModel(name, house_type, local, url, branch) ==
    [name |-> name, house_type |-> house_type, local |-> local, url |-> url,
     branch |-> branch]

PartModel(house_name, part, name, author, version, doc, module_name) ==
    [house_name |-> house_name, part |-> part, name |-> name, author |-> author,
     version |-> version, doc |-> doc, module_name |-> module_name]

ConfigModel(key, value) == [key |-> key, value |-> value]

EmptyStore == [config |-> <<>>, houses |-> <<>>, parts |-> <<>>]

\* Query.first(): the first row of a result, or nothing
first(rows) == IF rows = <<>> THEN <<>> ELSE <<Head(rows)>>

\* A query that filters house_repo on the url column instead
by_name_url(rows, name) == SelectSeq(rows, LAMBDA r : r.url = name)

\* filter(HouseModel.name == name) / filter_by(name=name) on house_repo
by_name(rows, name) == SelectSeq(rows, LAMBDA r : r.name = name)

\* filter_by(name=part_name) on house_part
part_by_name(rows, name) == SelectSeq(rows, LAMBDA r : r.name = name)

\* filter_by(house_name=name)
by_house_name(rows, name) == SelectSeq(rows, LAMBDA r : r.house_name = name)

\* filter_by(part=part_type)
by_part(rows, part_type) == SelectSeq(rows, LAMBDA r : r.part = part_type)

\* Query.delete() of the rows with that house_name / that name
delete_by_house_name(rows, name) == SelectSeq(rows, LAMBDA r : r.house_name # name)

delete_by_name(rows, name) == SelectSeq(rows, LAMBDA r : r.name # name)

\* INSERT of pending rows under UniqueConstraint('name'): ok is FALSE when a
\* row of that name is already in the table
RECURSIVE InsertHouses(_, _)
InsertHouses(rows, pending) ==
    IF pending = <<>> THEN [ok |-> TRUE, rows |-> rows]
    ELSE IF by_name(rows, Head(pending).name) # <<>>
         THEN [ok |-> FALSE, rows |-> rows]
         ELSE InsertHouses(Append(rows, Head(pending)), Tail(pending))

\* INSERT of pending rows under UniqueConstraint('key')
RECURSIVE InsertConfigs(_, _)
InsertConfigs(rows, pending) ==
    IF pending = <<>> THEN [ok |-> TRUE, rows |-> rows]
    ELSE IF SelectSeq(rows, LAMBDA r : r.key = Head(pending).key) # <<>>
         THEN [ok |-> FALSE, rows |-> rows]
         ELSE InsertConfigs(Append(rows, Head(pending)), Tail(pending))

\* Session.flush(): the pending objects are inserted, in the order they were
\* added; house_part has no constraint
Flush(tx, new) ==
    LET c == InsertConfigs(tx.config, new.config)
        h == InsertHouses(tx.houses, new.houses)
    IN [ok |-> c.ok /\ h.ok,
        store |-> [config |-> c.rows, houses |-> h.rows,
                   parts |-> tx.parts \o new.parts]]

\* ------------------------------------------------------------ calls

\* The state a call works on: the committed rows (db), the rows as the open
\* transaction sees them (tx), the objects added to the session and not yet
\* flushed (new; autoflush is off), whether self._session is set (active),
\* the disk, sys.path, and the events of the call so far (trace).
Ev(name, arg) == [ev |-> name, arg |-> arg]

Log(m, name, arg) == [m EXCEPT !.trace = Append(@, Ev(name, arg))]

NoExc == "None"

NoInfo == [name |-> NULL, author |-> NULL, version |-> NULL, doc |-> NULL]
NoPart == [factory |-> "none", kwargs |-> "none", name |-> NULL]

\* How a call ends: the state, the exception raised (or NoExc), the value
Return(m) ==
    [m |-> m, raised |-> NoExc, list |-> <<>>, info |-> NoInfo, part |-> NoPart]

Raise(m, exc) ==
    [m |-> Log(m, "raise", <<exc>>), raised |-> exc, list |-> <<>>,
     info |-> NoInfo, part |-> NoPart]

\* Session.commit(): flush, then make the transaction's rows the committed ones;
\* the event carries the rows that are committed from then on
Commit(m) ==
    LET f == Flush(m.tx, m.new)
    IN IF f.ok
       THEN [ok |-> TRUE,
             m |-> Log([m EXCEPT !.tx = f.store, !.db = f.store, !.new = EmptyStore],
                       "commit", f.store)]
       ELSE [ok |-> FALSE,
             m |-> Log([m EXCEPT !.tx = m.db, !.new = EmptyStore], "rollback", <<>>)]

\* Session.close(): what is not committed is dropped
Close(m) == Log([m EXCEPT !.tx = m.db, !.new = EmptyStore], "close", <<>>)

\* dbsession, before the call of func: the manager with a session, a new one
\* when it has none
with_session(m) ==
    IF ~m.active THEN Log([m EXCEPT !.active = TRUE], "open", <<>>) ELSE m

\* dbsession, after the call of func: m is the manager the decorated method
\* was called on and r what func did on with_session(m). A raise of func
\* leaves the decorator at once; a return is followed by the commit and, when
\* the session was opened by this call, by its close
dbsession(m, r) ==
    LET old_session == m.active
    IN IF r.raised # NoExc THEN r
       ELSE LET c == Commit(r.m)
            IN IF ~c.ok THEN Raise(c.m, "IntegrityError")
               ELSE IF ~old_session
                    THEN [r EXCEPT !.m = [Close(c.m) EXCEPT !.active = old_session]]
                    ELSE [r EXCEPT !.m = c.m]

\* ------------------------------------------------------------ the scan
\* module_name with the "part." piece for every part type
module_name_uniform(base_local, part, entry_name) ==
    Format(<<Hole, Dot, "part", Dot, Hole, Dot, Hole, Dot, "part">>,
           <<base_local, part, entry_name>>)

\* module_name of a candidate: the importable dotted path of its part.py
module_name_of(base_local, part, entry_name) ==
    IF part \notin NoPrefixParts
    THEN Format(<<Hole, Dot, "part", Dot, Hole, Dot, Hole, Dot, "part">>,
                <<base_local, part, entry_name>>)
    ELSE Format(<<Hole, Dot, Hole, Dot, Hole, Dot, "part">>,
                <<base_local, part, entry_name>>)

\* name of a candidate's part: both branches of the source format it alike
part_name_of(house_name, part, entry_name) ==
    IF part \notin NoPrefixParts
    THEN Format(<<Hole, Dot, Hole, Dot, Hole>>, <<house_name, part, entry_name>>)
    ELSE Format(<<Hole, Dot, Hole, Dot, Hole>>, <<house_name, part, entry_name>>)

\* The attribute columns of a PartModel, 'None' standing for what is missing
author_of(mod) == IF "author" \in mod.vars THEN strip(mod.author.val) ELSE NoneStr

version_of(mod) == IF "version" \in mod.vars THEN strip(mod.version.val) ELSE NoneStr

doc_of(mod) == IF mod.doc # NULL /\ mod.doc # <<>> THEN strip(mod.doc) ELSE NoneStr

\* Building the PartModel raises when an attribute that is there has no strip()
build_fails(mod) ==
    \/ "author" \in mod.vars /\ ~mod.author.isstr
    \/ "version" \in mod.vars /\ ~mod.version.isstr
\* The loop body without the check that the module has a part function
import_entry_nopartcheck(m, house_model, base_local, part, path, entry) ==
    IF ~(~startswith(entry.name, Dot) /\ entry.is_dir /\ entry.name # <<"__pycache__">>)
    THEN m
    ELSE LET module_name == module_name_of(base_local, part, entry.name)
             entry_path == path \o <<Slash>> \o entry.name
             part_module == import_module(m.fs, m.syspath, module_name)
             m1 == Log(m, "import", module_name)
         IN IF part_module.load # "ok" THEN Log(m1, "error", entry_path)
            ELSE IF build_fails(part_module) THEN Log(m1, "error", entry_path)
            ELSE LET part_model ==
                         PartModel(house_model.name, part,
                                   part_name_of(house_model.name, part, entry.name),
                                   author_of(part_module), version_of(part_module),
                                   doc_of(part_module), module_name)
                 IN Log([m1 EXCEPT !.new.parts = Append(@, part_model)],
                        "add_part", part_model.name)

\* What follows the import of a candidate's module: part_module is what
\* import_module gave. An import error, a module without a part function and
\* an error while the PartModel is built are each logged and the candidate is
\* left out; otherwise the PartModel is added to the session
add_part_model(m, house_model, part, entry_name, entry_path, module_name, part_module) ==
    IF part_module.load # "ok" THEN Log(m, "error", entry_path)
    ELSE IF "part" \notin part_module.vars THEN Log(m, "error", entry_path)
    ELSE IF build_fails(part_module) THEN Log(m, "error", entry_path)
    ELSE Log([m EXCEPT !.new.parts =
                 Append(@, PartModel(house_model.name, part,
                                     part_name_of(house_model.name, part, entry_name),
                                     author_of(part_module), version_of(part_module),
                                     doc_of(part_module), module_name))],
             "add_part", part_name_of(house_model.name, part, entry_name))

\* The try block of the loop body: the module at module_name is imported
import_candidate(m, house_model, part, entry_name, entry_path, module_name) ==
    add_part_model(Log(m, "import", module_name), house_model, part, entry_name,
                   entry_path, module_name,
                   import_module(m.fs, m.syspath, module_name))

\* The body of the loop over the entries of one part directory: one candidate
import_entry(m, house_model, base_local, part, path, entry) ==
    IF ~(~startswith(entry.name, Dot) /\ entry.is_dir /\ entry.name # <<"__pycache__">>)
    THEN m
    ELSE import_candidate(m, house_model, part, entry.name,
                          path \o <<Slash>> \o entry.name,
                          module_name_of(base_local, part, entry.name))

RECURSIVE import_entries(_, _, _, _, _, _)
import_entries(m, house_model, base_local, part, path, entries) ==
    IF entries = <<>> THEN m
    ELSE import_entries(import_entry(m, house_model, base_local, part, path,
                                     Head(entries)),
                        house_model, base_local, part, path, Tail(entries))

\* The loop over part_dict, from its k-th key on
RECURSIVE import_parts(_, _, _, _)
import_parts(m, house_model, base_local, k) ==
    IF k > Len(PartKeys) THEN Return(m)
    ELSE LET part == PartKeys[k]
             path == Format(<<Hole, Slash, Hole>>, <<house_model.local, part_dict(part)>>)
             it == scandir(m.fs, path)
         IN IF it.err = "FileNotFoundError"
            THEN import_parts(m, house_model, base_local, k + 1)
            ELSE IF it.err # "None" THEN Raise(m, it.err)
            ELSE import_parts(import_entries(m, house_model, base_local, part, path,
                                             it.entries),
                              house_model, base_local, k + 1)

import_part_to_db_body(m, house_model) ==
    LET local_dir == house_model.local
    IN IF ~lexists(m.fs, local_dir)
       THEN Return(Log(m, "warning", local_dir))
       ELSE import_parts(Log(m, "scan", local_dir), house_model, basename(local_dir), 1)

import_part_to_db(m, house_model) ==
    dbsession(m, import_part_to_db_body(with_session(m), house_model))

\* ------------------------------------------------------------ houses

\* What git.Repo.clone_from can do: fail, or leave one of the trees
CloneFails == "fail"
FetchOutcomes == TreeIds \cup {CloneFails}

\* download_remote_house: the cache directory is removed, then cloned into;
\* when the clone fails the except clause raises RuntimeError with a message
\* that holds the url (the arg of the clone_failed event)
download_remote_house(m, local_dir, url, branch, outcome) ==
    LET m1 == IF lexists(m.fs, local_dir)
              THEN Log([m EXCEPT !.fs[local_dir] = Absent], "rmtree", local_dir)
              ELSE m
        m2 == Log(m1, "clone", url)
    IN IF outcome = CloneFails
       THEN Raise(Log(m2, "clone_failed", url), "RuntimeError")
       ELSE Return([m2 EXCEPT !.fs[local_dir] = outcome])

\* sys.path.append(p); a second copy of an entry changes no import
path_append(sp, p) ==
    IF \E i \in 1..Len(sp) : sp[i] = p THEN sp ELSE Append(sp, p)
\* add_remote_house without the check of the name
add_remote_house_nocheck(m, name, url, branch, outcome) ==
    LET m1 == Log(m, "query_house", name)
        local_dir == Format(<<Hole, Slash, Hole>>, <<CacheDir, name>>)
        d == download_remote_house(m1, local_dir, url, branch, outcome)
    IN IF d.raised # NoExc THEN d
       ELSE LET new_record == HouseModel(name, <<"remote">>, local_dir, url, branch)
                r == import_part_to_db(d.m, new_record)
            IN IF r.raised # NoExc THEN r
               ELSE Return(Log([r.m EXCEPT !.new.houses = Append(@, new_record)],
                               "add_house", name))

\* The scan as the statement after one that ended as d: a raise of that
\* statement has left the method, and the scan is not made
then_import_part_to_db(d, house_model) ==
    IF d.raised # NoExc THEN d ELSE import_part_to_db(d.m, house_model)

\* self._session.add(house_model) as the statement after the scan that ended
\* as r: a raise of the scan has left the method, and the house is not added
then_add(r, house_model) ==
    IF r.raised # NoExc THEN r
    ELSE Return(Log([r.m EXCEPT !.new.houses = Append(@, house_model)],
                    "add_house", house_model.name))
\* add_remote_house with the fetch made before the check of the name
add_remote_house_fetchfirst(m, name, url, branch, outcome) ==
    LET local_dir == Format(<<Hole, Slash, Hole>>, <<CacheDir, name>>)
        new_record == HouseModel(name, <<"remote">>, local_dir, url, branch)
        d == download_remote_house(m, local_dir, url, branch, outcome)
    IN IF d.raised # NoExc THEN d
       ELSE IF first(by_name(d.m.tx.houses, name)) # <<>>
            THEN Raise(Log(d.m, "query_house", name), "HouseNameRepeatError")
            ELSE then_add(import_part_to_db(Log(d.m, "query_house", name), new_record),
                          new_record)

add_remote_house_body(m, name, url, branch, outcome) ==
    LET record == first(by_name(m.tx.houses, name))
        local_dir == Format(<<Hole, Slash, Hole>>, <<CacheDir, name>>)
        new_record == HouseModel(name, <<"remote">>, local_dir, url, branch)
    IN IF record # <<>> THEN Raise(Log(m, "query_house", name), "HouseNameRepeatError")
       ELSE then_add(then_import_part_to_db(
                         download_remote_house(Log(m, "query_house", name),
                                               local_dir, url, branch, outcome),
                         new_record),
                     new_record)

add_remote_house(m, name, url, branch, outcome) ==
    dbsession(m, add_remote_house_body(with_session(m), name, url, branch, outcome))

add_local_house_body(m, path) ==
    IF ~lexists(m.fs, path) THEN Raise(m, "HKUCheckError")
    ELSE LET local_path == path
             name == basename(local_path)
             record == first(by_name(m.tx.houses, name))
             m1 == Log(m, "query_house", name)
         IN IF record # <<>> THEN Raise(m1, "HouseNameRepeatError")
            ELSE LET m2 == [m1 EXCEPT !.syspath = path_append(@, dirname(path))]
                     tmp == FindPackage(m2.fs, m2.syspath, name)
                 IN IF tmp = NULL THEN Raise(m2, "ModuleNotFoundError")
                    ELSE IF tmp # local_path THEN Raise(m2, "ModuleConflictError")
                    ELSE LET house_model ==
                                 HouseModel(name, <<"local">>, local_path, NULL, NULL)
                         IN then_add(import_part_to_db(m2, house_model), house_model)

add_local_house(m, path) == dbsession(m, add_local_house_body(with_session(m), path))

update_house_body(m, name, outcome) ==
    LET found == first(by_name(m.tx.houses, name))
        m1 == Log(m, "query_house", name)
    IN IF found = <<>> THEN Raise(m1, "HKUCheckError")
       ELSE LET house_model == found[1]
                m2 == Log([m1 EXCEPT !.tx.parts = delete_by_house_name(@, name)],
                          "delete_parts", name)
            IN then_import_part_to_db(
                   IF house_model.house_type = <<"remote">>
                   THEN download_remote_house(m2, house_model.local, house_model.url,
                                              house_model.branch, outcome)
                   ELSE Return(m2),
                   house_model)

update_house(m, name, outcome) ==
    dbsession(m, update_house_body(with_session(m), name, outcome))

remove_house_body(m, name) ==
    LET m1 == Log([m EXCEPT !.tx.parts = delete_by_house_name(@, name)],
                  "delete_parts", name)
    IN Return(Log([m1 EXCEPT !.tx.houses = delete_by_name(@, name)],
                  "delete_house", name))

remove_house(m, name) == dbsession(m, remove_house_body(with_session(m), name))

RECURSIVE append_local_parents(_, _)
append_local_parents(sp, house_models) ==
    IF house_models = <<>> THEN sp
    ELSE append_local_parents(path_append(sp, dirname(Head(house_models).local)),
                              Tail(house_models))

setup_house_body(m, outcome) ==
    LET found == first(SelectSeq(m.tx.config, LAMBDA r : r.key = <<"remote_cache_dir">>))
        m1 == IF found = <<>>
              THEN [m EXCEPT !.new.config =
                        Append(@, ConfigModel(<<"remote_cache_dir">>, CacheDir))]
              ELSE m
        house_models == SelectSeq(m1.tx.houses, LAMBDA r : r.house_type = <<"local">>)
        m2 == [m1 EXCEPT !.syspath =
                  append_local_parents(path_append(@, CacheDir), house_models)]
        hikyuu_house_path == first(by_name(m2.tx.houses, <<"default">>))
    IN IF hikyuu_house_path = <<>>
       THEN add_remote_house(m2, <<"default">>, DefaultUrl, <<"master">>, outcome)
       ELSE Return(m2)

setup_house(m, outcome) == dbsession(m, setup_house_body(with_session(m), outcome))

\* ------------------------------------------------------------ parts

\* The part types get_part accepts as the second-to-last piece of a name
part_types ==
    { <<"af">>, <<"cn">>, <<"ev">>, <<"mm">>, <<"pg">>, <<"se">>, <<"sg">>,
      <<"sp">>, <<"st">>, <<"prtflo">>, <<"sys">> }
\* The check made on the second piece of the name instead of the second-to-last
name_error_second(name_parts) ==
    Len(name_parts) < 2 \/ name_parts[2] \notin part_types

\* checkif(len(name_parts) < 2 or name_parts[-2] not in (...), name, PartNameError)
name_error(name_parts) ==
    Len(name_parts) < 2 \/ name_parts[Len(name_parts) - 1] \notin part_types

\* The name get_part looks up: a two-piece name gets a house name taken from
\* the path of house.py (path_parts); can is FALSE when the path is too short
qualified_name(name, name_parts, path_parts) ==
    IF Len(name_parts) = 2
    THEN IF name_parts[1] \in { <<"prtflo">>, <<"sys">> }
         THEN IF Len(path_parts) < 4 THEN [can |-> FALSE, name |-> name]
              ELSE [can |-> TRUE,
                    name |-> Format(<<Hole, Dot, Hole>>,
                                    <<path_parts[Len(path_parts) - 3], name>>)]
         ELSE IF Len(path_parts) < 5 THEN [can |-> FALSE, name |-> name]
              ELSE [can |-> TRUE,
                    name |-> Format(<<Hole, Dot, Hole>>,
                                    <<path_parts[Len(path_parts) - 4], name>>)]
    ELSE [can |-> TRUE, name |-> name]
\* get_part that returns the instance as the factory made it, name not set
get_part_nostamp(m, name, kwargs, path_parts) ==
    LET name_parts == split(name, Dot)
    IN IF name_error(name_parts) THEN Raise(m, "PartNameError")
       ELSE LET q == qualified_name(name, name_parts, path_parts)
                part_name == q.name
                found == first(part_by_name(m.tx.parts, part_name))
                m1 == Log(m, "query_part", part_name)
            IN IF ~q.can THEN Raise(m, "PartNotFoundError")
               ELSE IF found = <<>> THEN Raise(m1, "PartNotFoundError")
               ELSE LET part_model == found[1]
                        part_module == import_module(m.fs, m.syspath, part_model.module_name)
                        m2 == Log(m1, "import", part_model.module_name)
                    IN IF part_module.load = "ModuleNotFoundError"
                       THEN Raise(m2, "PartNotFoundError")
                       ELSE IF part_module.load # "ok" THEN Raise(m2, part_module.load)
                       ELSE IF "part" \notin part_module.vars
                       THEN Raise(m2, "AttributeError")
                       ELSE [Return(Log(m2, "factory", part_model.module_name))
                                EXCEPT !.part = [factory |-> part_module.factory,
                                                 kwargs |-> kwargs,
                                                 name |-> <<part_module.factory>>]]

\* get_part that lets ModuleNotFoundError through as it is
get_part_nocatch(m, name, kwargs, path_parts) ==
    LET name_parts == split(name, Dot)
    IN IF name_error(name_parts) THEN Raise(m, "PartNameError")
       ELSE LET q == qualified_name(name, name_parts, path_parts)
                part_name == q.name
                found == first(part_by_name(m.tx.parts, part_name))
                m1 == Log(m, "query_part", part_name)
            IN IF ~q.can THEN Raise(m, "PartNotFoundError")
               ELSE IF found = <<>> THEN Raise(m1, "PartNotFoundError")
               ELSE LET part_model == found[1]
                        part_module == import_module(m.fs, m.syspath, part_model.module_name)
                        m2 == Log(m1, "import", part_model.module_name)
                    IN IF part_module.load # "ok" THEN Raise(m2, part_module.load)
                       ELSE IF "part" \notin part_module.vars
                       THEN Raise(m2, "AttributeError")
                       ELSE [Return(Log(m2, "factory", part_model.module_name))
                                EXCEPT !.part = [factory |-> part_module.factory,
                                                 kwargs |-> kwargs,
                                                 name |-> part_model.name]]

get_part_body(m, name, kwargs, path_parts) ==
    LET name_parts == split(name, Dot)
    IN IF name_error(name_parts) THEN Raise(m, "PartNameError")
       ELSE LET q == qualified_name(name, name_parts, path_parts)
                part_name == q.name
                found == first(part_by_name(m.tx.parts, part_name))
                m1 == Log(m, "query_part", part_name)
            IN IF ~q.can THEN Raise(m, "PartNotFoundError")
               ELSE IF found = <<>> THEN Raise(m1, "PartNotFoundError")
               ELSE LET part_model == found[1]
                        part_module == import_module(m.fs, m.syspath, part_model.module_name)
                        m2 == Log(m1, "import", part_model.module_name)
                    IN IF part_module.load = "ModuleNotFoundError"
                       THEN Raise(m2, "PartNotFoundError")
                       ELSE IF part_module.load # "ok" THEN Raise(m2, part_module.load)
                       ELSE IF "part" \notin part_module.vars
                       THEN Raise(m2, "AttributeError")
                       ELSE [Return(Log(m2, "factory", part_model.module_name))
                                EXCEPT !.part = [factory |-> part_module.factory,
                                                 kwargs |-> kwargs,
                                                 name |-> part_model.name]]

get_part(m, name, kwargs, path_parts) ==
    dbsession(m, get_part_body(with_session(m), name, kwargs, path_parts))

get_part_info_body(m, name) ==
    LET found == first(part_by_name(m.tx.parts, name))
        m1 == Log(m, "query_part", name)
    IN IF found = <<>> THEN Raise(m1, "PartNotFoundError")
       ELSE [Return(m1) EXCEPT !.info = [name |-> name, author |-> found[1].author,
                                         version |-> found[1].version,
                                         doc |-> found[1].doc]]

get_part_info(m, name) == dbsession(m, get_part_info_body(with_session(m), name))

names_of(rows) == [i \in 1..Len(rows) |-> rows[i].name]

get_house_name_list_body(m) ==
    [Return(Log(m, "query_house", <<>>)) EXCEPT !.list = names_of(m.tx.houses)]

get_house_name_list(m) == dbsession(m, get_house_name_list_body(with_session(m)))

\* house and part_type are NULL when the caller leaves them out
get_part_name_list_body(m, house, part_type) ==
    LET results ==
            IF house = NULL /\ part_type = NULL THEN m.tx.parts
            ELSE IF house = NULL THEN by_part(m.tx.parts, part_type)
            ELSE IF part_type = NULL THEN by_house_name(m.tx.parts, house)
            ELSE by_part(by_house_name(m.tx.parts, house), part_type)
    IN [Return(Log(m, "query_part", <<>>)) EXCEPT !.list = names_of(results)]

get_part_name_list(m, house, part_type) ==
    dbsession(m, get_part_name_list_body(with_session(m), house, part_type))

\* ------------------------------------------------------------ the machine

FreshSession == [active |-> FALSE, tx |-> db, new |-> EmptyStore]

\* The state a call starts from
Cur ==
    [db |-> db, tx |-> sess.tx, new |-> sess.new, active |-> sess.active,
     fs |-> fs, syspath |-> syspath, trace |-> <<>>]

\* The state of a HouseManager just constructed by __init__ over the same file
Constructed ==
    [db |-> db, tx |-> db, new |-> EmptyStore, active |-> FALSE,
     fs |-> fs, syspath |-> syspath, trace |-> <<>>]

NoCall ==
    [op |-> "none", args |-> <<>>, raised |-> NoExc, list |-> <<>>, info |-> NoInfo,
     part |-> NoPart, trace |-> <<>>, pre |-> EmptyStore, pre_new |-> <<>>]

\* A call that started from m0 and ended as r: the state it leaves and the
\* record of it
Finish(op, args, m0, r) ==
    /\ db' = r.m.db
    /\ sess' = [active |-> r.m.active, tx |-> r.m.tx, new |-> r.m.new]
    /\ fs' = r.m.fs
    /\ syspath' = r.m.syspath
    /\ last' = [op |-> op, args |-> args, raised |-> r.raised, list |-> r.list,
                info |-> r.info, part |-> r.part, trace |-> r.m.trace,
                pre |-> m0.tx, pre_new |-> m0.new.parts]
    /\ nops' = nops + 1

\* The inputs of the calls
PartNameInputs ==
    { <<"default", Dot, "sg", Dot, "e1">>, <<"a", Dot, "sg", Dot, "e1">>,
      <<"default", Dot, "sys", Dot, "e1">>, <<"a", Dot, "prtflo", Dot, "e1">>,
      <<"sg", Dot, "e1">>, <<"sys", Dot, "e1">>,
      <<"sg">>, <<"default", Dot, "e1">>, <<"a", Dot, "sg", Dot, "e1", Dot, "x">> }

KwargsInputs == {"k1"}

\* pathlib.Path(os.path.abspath(__file__)).parts, for two places of house.py
InstallPaths ==
    { << <<Slash>>, <<"hikyuu">>, <<"house.py">> >>,
      << <<Slash>>, <<"default">>, <<"lib">>, <<"site">>, <<"hikyuu">>, <<"house.py">> >> }

HouseInputs == HouseNames \cup {NULL}
PartTypeInputs == { NULL, <<"sg">> }

Init ==
    /\ db = EmptyStore
    /\ sess = [active |-> FALSE, tx |-> EmptyStore, new |-> EmptyStore]
    /\ fs \in [Dirs -> TreeIds \cup {Absent}]
    /\ \A d \in Dirs \ LocalPaths : fs[d] = Absent
    /\ syspath = <<>>
    /\ ready = FALSE
    /\ last = NoCall
    /\ nops = 0

\* Importing the module: HouseManager() is constructed and setup_house() runs;
\* the import succeeds when setup_house returns
SetupHouse ==
    /\ ~ready /\ nops < MaxOps
    /\ \E outcome \in FetchOutcomes :
          Finish("setup_house", <<>>, Constructed, setup_house(Constructed, outcome))
    /\ ready' = (last'.raised = NoExc)

\* The process ends; the next one starts with its own sys.path and session
Restart ==
    /\ ready /\ nops < MaxOps
    /\ sess' = FreshSession
    /\ syspath' = <<>>
    /\ ready' = FALSE
    /\ last' = [NoCall EXCEPT !.op = "restart"]
    /\ nops' = nops + 1
    /\ UNCHANGED <<db, fs>>

\* The user changes a local house directory
EnvWrite ==
    /\ nops < MaxOps /\ last.op # "env"
    /\ \E d \in LocalPaths, t \in TreeIds \cup {Absent} :
          /\ fs[d] # t
          /\ fs' = [fs EXCEPT ![d] = t]
    /\ last' = [NoCall EXCEPT !.op = "env"]
    /\ UNCHANGED <<db, sess, syspath, ready, nops>>

AddRemoteHouse ==
    /\ ready /\ nops < MaxOps
    /\ \E name \in HouseNames, url \in Urls, branch \in Branches,
          outcome \in FetchOutcomes :
          Finish("add_remote_house", <<name, url, branch>>, Cur,
                 add_remote_house(Cur, name, url, branch, outcome))
    /\ UNCHANGED ready

AddLocalHouse ==
    /\ ready /\ nops < MaxOps
    /\ \E path \in LocalPaths :
          Finish("add_local_house", <<path>>, Cur, add_local_house(Cur, path))
    /\ UNCHANGED ready

UpdateHouse ==
    /\ ready /\ nops < MaxOps
    /\ \E name \in HouseNames, outcome \in FetchOutcomes :
          Finish("update_house", <<name>>, Cur, update_house(Cur, name, outcome))
    /\ UNCHANGED ready

RemoveHouse ==
    /\ ready /\ nops < MaxOps
    /\ \E name \in HouseNames :
          Finish("remove_house", <<name>>, Cur, remove_house(Cur, name))
    /\ UNCHANGED ready

GetPart ==
    /\ ready /\ nops < MaxOps
    /\ \E name \in PartNameInputs, kwargs \in KwargsInputs, path_parts \in InstallPaths :
          Finish("get_part", <<name>>, Cur, get_part(Cur, name, kwargs, path_parts))
    /\ UNCHANGED ready

GetPartInfo ==
    /\ ready /\ nops < MaxOps
    /\ \E name \in PartNameInputs :
          Finish("get_part_info", <<name>>, Cur, get_part_info(Cur, name))
    /\ UNCHANGED ready

GetHouseNameList ==
    /\ ready /\ nops < MaxOps
    /\ Finish("get_house_name_list", <<>>, Cur, get_house_name_list(Cur))
    /\ UNCHANGED ready

GetPartNameList ==
    /\ ready /\ nops < MaxOps
    /\ \E house \in HouseInputs, part_type \in PartTypeInputs :
          Finish("get_part_name_list", <<house, part_type>>, Cur,
                 get_part_name_list(Cur, house, part_type))
    /\ UNCHANGED ready

Next ==
    \/ SetupHouse
    \/ Restart
    \/ EnvWrite
    \/ AddRemoteHouse
    \/ AddLocalHouse
    \/ UpdateHouse
    \/ RemoveHouse
    \/ GetPart
    \/ GetPartInfo
    \/ GetHouseNameList
    \/ GetPartNameList

Spec == Init /\ [][Next]_vars

\* ------------------------------------------------------------ properties

Registered(houses, name) == \E i \in 1..Len(houses) : houses[i].name = name

CountNamed(rows, name) == Cardinality({ i \in 1..Len(rows) : rows[i].name = name })

\* C1: add_remote_house of a name that is already registered fails with
\* HouseNameRepeatError, and the store keeps exactly one house row of that name.
C1_DuplicateNameRejected ==
    (last.op = "add_remote_house" /\ Registered(last.pre.houses, last.args[1]))
        => /\ last.raised = "HouseNameRepeatError"
           /\ CountNamed(db.houses, last.args[1]) = 1
           /\ CountNamed(sess.tx.houses, last.args[1]) = 1
           /\ sess.new.houses = <<>>

C1_Witness ==
    /\ last.op = "add_remote_house"
    /\ Registered(last.pre.houses, last.args[1])
    /\ last.raised = "HouseNameRepeatError"

\* C2: after any sequence of calls no two house rows have the same name,
\* in the committed rows and in the rows the session sees.
C2_HouseNamesUnique ==
    /\ \A i, j \in 1..Len(db.houses) :
          db.houses[i].name = db.houses[j].name => i = j
    /\ \A i, j \in 1..Len(sess.tx.houses) :
          sess.tx.houses[i].name = sess.tx.houses[j].name => i = j

C2_Witness ==
    /\ Len(db.houses) = 2
    /\ last.raised = "HouseNameRepeatError"

Contains(seq, x) == \E i \in 1..Len(seq) : seq[i] = x

\* C3: after remove_house(name) has returned, get_house_name_list() does not
\* contain name and get_part_name_list(house=name) is empty.
C3_RemovedHouseIsGone ==
    (last.op = "remove_house" /\ last.raised = NoExc)
        => /\ ~Contains(get_house_name_list(Cur).list, last.args[1])
           /\ get_part_name_list(Cur, last.args[1], NULL).list = <<>>

\* The rows a scan of the house directory registers, as the disk is now
ScannedRows(house_model) ==
    import_part_to_db_body([Cur EXCEPT !.new = EmptyStore], house_model).m.new.parts

\* C4: a successful update_house(name) leaves, for that house, exactly the
\* part rows its scan has just registered.
C4_UpdateReplacesParts ==
    (last.op = "update_house" /\ last.raised = NoExc)
        => LET house_model == by_name(sess.tx.houses, last.args[1])[1]
           IN by_house_name(sess.tx.parts, last.args[1]) = ScannedRows(house_model)

CountEv(trace, ev) == Cardinality({ k \in 1..Len(trace) : trace[k].ev = ev })

\* The taxonomy as the specification states it
PrefixedTypes ==
    { <<"af">>, <<"cn">>, <<"ev">>, <<"mm">>, <<"pg">>, <<"se">>, <<"sg">>,
      <<"sp">>, <<"st">> }
BareTypes == { <<"prtflo">>, <<"sys">> }
AllTypes == PrefixedTypes \cup BareTypes

TypeDir(c) == IF c \in BareTypes THEN c ELSE <<"part", Slash>> \o c

\* The candidates of a tree: the visible sub-directories of its part directories
IsCandidate(e) == e.is_dir /\ e.name[1] # Dot /\ e.name # <<"__pycache__">>

IsValid(e) ==
    /\ IsCandidate(e)
    /\ e.mod.load = "ok"
    /\ "part" \in e.mod.vars
    /\ ("author" \in e.mod.vars => e.mod.author.isstr)
    /\ ("version" \in e.mod.vars => e.mod.version.isstr)

EntriesOf(tree, c) == IF TypeDir(c) \in DOMAIN tree.ls THEN tree.ls[TypeDir(c)] ELSE <<>>

ValidSet(tree) ==
    { ce \in AllTypes \X (1..5) :
        ce[2] <= Len(EntriesOf(tree, ce[1])) /\ IsValid(EntriesOf(tree, ce[1])[ce[2]]) }

BrokenSet(tree) ==
    { ce \in AllTypes \X (1..5) :
        /\ ce[2] <= Len(EntriesOf(tree, ce[1]))
        /\ IsCandidate(EntriesOf(tree, ce[1])[ce[2]])
        /\ ~IsValid(EntriesOf(tree, ce[1])[ce[2]]) }

\* The directory the last call has scanned, and the house it scanned it for
ScanEvents == { k \in 1..Len(last.trace) : last.trace[k].ev = "scan" }

ScannedDir == last.trace[CHOOSE k \in ScanEvents : TRUE].arg

ScannedHouse ==
    IF last.op = "setup_house" THEN <<"default">>
    ELSE IF last.op = "add_local_house" THEN <<last.args[1][Len(last.args[1])]>>
    ELSE last.args[1]

\* The rows of before the call that the call has not deleted
KeptRows ==
    IF last.op = "update_house"
    THEN SelectSeq(last.pre.parts, LAMBDA r : r.house_name # last.args[1])
    ELSE last.pre.parts

\* No part directory of the tree is a regular file
DirsAreDirs(tree) == \A c \in AllTypes : TypeDir(c) \notin tree.files

\* C5: a scan does not abort because a candidate is broken: it returns without
\* raising, registers one part row for each valid candidate and none for a
\* broken one, and logs one error for each broken one.
C5_ScanSkipsBroken ==
    (ScanEvents # {} /\ DirsAreDirs(TreeContent(fs[ScannedDir])))
        => LET tree == TreeContent(fs[ScannedDir])
           IN /\ last.raised = NoExc
              /\ CountEv(last.trace, "add_part") = Cardinality(ValidSet(tree))
              /\ CountEv(last.trace, "error") = Cardinality(BrokenSet(tree))
              /\ Len(sess.tx.parts) =
                    Len(KeptRows) + Len(last.pre_new) + Cardinality(ValidSet(tree))
              /\ sess.new.parts = <<>>

C5_Witness ==
    /\ ScanEvents # {}
    /\ fs[ScannedDir] = "T2"
    /\ last.raised = NoExc
    /\ CountEv(last.trace, "error") = 4
    /\ CountEv(last.trace, "add_part") = 1

\* C6: the part registered for entry E of type C of house H with directory
\* basename B has name "H.C.E", and module name "B.part.C.E.part" for the nine
\* prefixed types and "B.C.E.part" for prtflo and sys.
C6_NameAndLocator ==
    (ScanEvents # {} /\ last.raised = NoExc)
        => LET tree == TreeContent(fs[ScannedDir])
               H == ScannedHouse
               B == <<ScannedDir[Len(ScannedDir)]>>
           IN \A ce \in ValidSet(tree) :
                 LET C == ce[1]
                     E == EntriesOf(tree, C)[ce[2]].name
                 IN \E i \in 1..Len(sess.tx.parts) :
                       /\ sess.tx.parts[i].house_name = H
                       /\ sess.tx.parts[i].part = C
                       /\ sess.tx.parts[i].name = H \o <<Dot>> \o C \o <<Dot>> \o E
                       /\ sess.tx.parts[i].module_name =
                             IF C \in PrefixedTypes
                             THEN B \o <<Dot, "part", Dot>> \o C \o <<Dot>> \o E
                                    \o <<Dot, "part">>
                             ELSE B \o <<Dot>> \o C \o <<Dot>> \o E \o <<Dot, "part">>

C6_Witness ==
    /\ ScanEvents # {}
    /\ last.raised = NoExc
    /\ \E i \in 1..Len(sess.tx.parts) :
          sess.tx.parts[i].module_name = <<"a", Dot, "prtflo", Dot, "e1", Dot, "part">>
    /\ \E i \in 1..Len(sess.tx.parts) :
          sess.tx.parts[i].module_name =
             <<"default", Dot, "part", Dot, "sg", Dot, "e1", Dot, "part">>

\* The part rows of that name that the last call could find
RowsNamed(name) ==
    { i \in 1..Len(last.pre.parts) : last.pre.parts[i].name = name }

\* What loading the component of a part row gives now
ComponentOf(row) == import_module(fs, syspath, row.module_name)

Loads(row) == ComponentOf(row).load = "ok" /\ "part" \in ComponentOf(row).vars

\* C7: get_part of the name of a registered part whose component loads returns
\* the instance the module's part factory made, its name set to the row's name.
C7_GetPartReturnsNamedInstance ==
    last.op = "get_part"
        => \A i \in RowsNamed(last.args[1]) :
              Loads(last.pre.parts[i])
                 => /\ last.raised = NoExc
                    /\ last.part.factory = ComponentOf(last.pre.parts[i]).factory
                    /\ last.part.name = last.pre.parts[i].name
                    /\ CountEv(last.trace, "factory") = 1

C7_Witness ==
    /\ last.op = "get_part"
    /\ RowsNamed(last.args[1]) # {}
    /\ last.raised = NoExc
    /\ last.part.factory = "f_full"
    /\ last.part.name = <<"default", Dot, "sg", Dot, "e1">>

\* The positions of the dots of a name, and the piece before its last dot
DotsOf(name) == { i \in 1..Len(name) : name[i] = Dot }

MaxOf(S) == CHOOSE x \in S : \A y \in S : y <= x

SecondToLast(name) ==
    LET l == MaxOf(DotsOf(name))
        before == { i \in DotsOf(name) : i < l }
        p == IF before = {} THEN 0 ELSE MaxOf(before)
    IN SubSeq(name, p + 1, l - 1)

Malformed(name) == DotsOf(name) = {} \/ SecondToLast(name) \notin AllTypes

\* C8: get_part raises PartNameError, before any query or import, when the name
\* has fewer than two pieces or its second-to-last piece is no part type, and
\* never raises it otherwise.
C8_PartNameError ==
    last.op = "get_part"
        => /\ Malformed(last.args[1])
                => /\ last.raised = "PartNameError"
                   /\ CountEv(last.trace, "query_part") = 0
                   /\ CountEv(last.trace, "import") = 0
           /\ ~Malformed(last.args[1]) => last.raised # "PartNameError"

C8_Witness ==
    /\ last.op = "get_part"
    /\ last.args[1] = <<"a", Dot, "sg", Dot, "e1", Dot, "x">>
    /\ last.raised = "PartNameError"

\* A name with a house piece: three pieces or more, the second-to-last a type
HouseQualified(name) == Cardinality(DotsOf(name)) >= 2 /\ ~Malformed(name)

\* C9 as stated: for a house-qualified name get_part raises PartNotFoundError
\* when no row has the name and when the row's component fails to load,
\* whatever the failure, and returns no instance.
C9_AnyLoadFailureIsNotFound ==
    (last.op = "get_part" /\ HouseQualified(last.args[1]))
        => /\ RowsNamed(last.args[1]) = {}
                => last.raised = "PartNotFoundError" /\ last.part = NoPart
           /\ \A i \in RowsNamed(last.args[1]) :
                 ComponentOf(last.pre.parts[i]).load # "ok"
                    => last.raised = "PartNotFoundError" /\ last.part = NoPart

\* C9 amended: PartNotFoundError when no row has the name and when the import
\* of the row's module raises ModuleNotFoundError; any other import error is
\* raised as it is; in none of these cases is an instance returned.
C9_NotFoundOnMissingModule ==
    (last.op = "get_part" /\ HouseQualified(last.args[1]))
        => /\ RowsNamed(last.args[1]) = {}
                => last.raised = "PartNotFoundError" /\ last.part = NoPart
           /\ \A i \in RowsNamed(last.args[1]) :
                 LET load == ComponentOf(last.pre.parts[i]).load
                 IN /\ load = "ModuleNotFoundError"
                         => last.raised = "PartNotFoundError" /\ last.part = NoPart
                    /\ load \notin {"ok", "ModuleNotFoundError"}
                         => last.raised = load /\ last.part = NoPart

C9_Witness ==
    /\ last.op = "get_part"
    /\ HouseQualified(last.args[1])
    /\ \E i \in RowsNamed(last.args[1]) :
          ComponentOf(last.pre.parts[i]).load = "ModuleNotFoundError"
    /\ last.raised = "PartNotFoundError"

\* A string without the blanks around it
MinOf(S) == CHOOSE x \in S : \A y \in S : x <= y

TrimOf(v) ==
    LET keep == { i \in 1..Len(v) : v[i] # Space }
    IN IF keep = {} THEN <<>> ELSE SubSeq(v, MinOf(keep), MaxOf(keep))

\* The columns the specification gives the part of a module
AuthorFor(mod) == IF "author" \in mod.vars THEN TrimOf(mod.author.val) ELSE <<"None">>

VersionFor(mod) == IF "version" \in mod.vars THEN TrimOf(mod.version.val) ELSE <<"None">>

DocFor(mod) == IF mod.doc = NULL \/ mod.doc = <<>> THEN <<"None">> ELSE TrimOf(mod.doc)

\* The row the last scan has registered for a name: the last one of that name
LastRowNamed(name) ==
    sess.tx.parts[MaxOf({ i \in 1..Len(sess.tx.parts) : sess.tx.parts[i].name = name })]

\* The rows of a completed scan carry 'None' for an attribute the module lacks
\* and the trimmed value of one it has
ScanFillsDefaults ==
    (ScanEvents # {} /\ last.raised = NoExc)
        => LET tree == TreeContent(fs[ScannedDir])
           IN \A ce \in ValidSet(tree) :
                 LET e == EntriesOf(tree, ce[1])[ce[2]]
                     row == LastRowNamed(ScannedHouse \o <<Dot>> \o ce[1] \o <<Dot>> \o e.name)
                 IN /\ row.author = AuthorFor(e.mod)
                    /\ row.version = VersionFor(e.mod)
                    /\ row.doc = DocFor(e.mod)

\* get_part_info gives the columns of every part registered under the name,
\* and imports nothing
InfoIsOfEveryRow ==
    (last.op = "get_part_info" /\ RowsNamed(last.args[1]) # {})
        => /\ last.raised = NoExc
           /\ CountEv(last.trace, "import") = 0
           /\ \A i \in RowsNamed(last.args[1]) :
                 /\ last.info.author = last.pre.parts[i].author
                 /\ last.info.version = last.pre.parts[i].version
                 /\ last.info.doc = last.pre.parts[i].doc

C11_PartNamesUnique ==
    /\ \A i, j \in 1..Len(db.parts) :
          db.parts[i].name = db.parts[j].name => i = j
    /\ \A i, j \in 1..Len(sess.tx.parts) :
          sess.tx.parts[i].name = sess.tx.parts[j].name => i = j

\* The commits of the last call
CommitEvents == { k \in 1..Len(last.trace) : last.trace[k].ev = "commit" }

\* C12: no committed state of a house-add holds part rows of the house that is
\* being added without its house row: every commit of the call that commits a
\* part row of that house commits the house row too.
C12_HouseAddAtomic ==
    (last.op \in {"add_remote_house", "add_local_house", "setup_house"}
     /\ ~Registered(last.pre.houses, ScannedHouse)
     /\ by_house_name(last.pre.parts, ScannedHouse) = <<>>
     /\ last.pre_new = <<>>)
        => \A k \in CommitEvents :
              by_house_name(last.trace[k].arg.parts, ScannedHouse) # <<>>
                 => Registered(last.trace[k].arg.houses, ScannedHouse)

\* The last call was update_house of a name with no house row
UpdateOfUnknown ==
    last.op = "update_house" /\ ~Registered(last.pre.houses, last.args[1])

\* The last call has deleted, fetched, scanned and committed nothing, and the
\* rows the session sees and its pending objects are those of before the call
NothingDone ==
    /\ sess.tx = last.pre
    /\ sess.new.parts = last.pre_new
    /\ \A k \in 1..Len(last.trace) :
          last.trace[k].ev \notin
              {"delete_parts", "delete_house", "rmtree", "clone", "scan", "import",
               "add_part", "add_house", "commit"}

\* update_house of an unregistered name raises and does nothing
UpdateOfUnknownDoesNothing ==
    UpdateOfUnknown => (last.raised # NoExc /\ NothingDone)

\* C13: update_house of a name that is not registered fails with
\* HouseNotFoundError and changes nothing: no row is deleted or altered and no
\* fetch or scan is run.
C13_UpdateUnknownHouse ==
    UpdateOfUnknown => (last.raised = "HouseNotFoundError" /\ NothingDone)

\* The fetch of the last call failed: the url its error message names
FailedFetches == { k \in 1..Len(last.trace) : last.trace[k].ev = "clone_failed" }

\* No row of the house is committed, seen by the session or pending in it
NoRowsOf(name) ==
    /\ ~Registered(db.houses, name) /\ by_house_name(db.parts, name) = <<>>
    /\ ~Registered(sess.tx.houses, name) /\ by_house_name(sess.tx.parts, name) = <<>>
    /\ ~Registered(sess.new.houses, name) /\ by_house_name(sess.new.parts, name) = <<>>

\* C14: when the fetch fails in add_remote_house(name, url, branch) the call
\* raises RuntimeError with a message naming url, and no house row and no part
\* row of name is in the store or left to be committed by a later call.
C14_FetchFailureLeavesNothing ==
    (last.op = "add_remote_house" /\ FailedFetches # {})
        => /\ last.raised = "RuntimeError"
           /\ \A k \in FailedFetches : last.trace[k].arg = last.args[2]
           /\ NoRowsOf(last.args[1])

\* The same, for calls that found no row of name pending or in the store
FetchFailureAddsNothing ==
    (/\ last.op = "add_remote_house" /\ FailedFetches # {}
     /\ by_house_name(last.pre.parts, last.args[1]) = <<>>
     /\ by_house_name(last.pre_new, last.args[1]) = <<>>)
        => /\ last.raised = "RuntimeError"
           /\ \A k \in FailedFetches : last.trace[k].arg = last.args[2]
           /\ NoRowsOf(last.args[1])

\* The last call returned and a wrapped call was nested in it: each wrapped
\* call that returns commits once
NestedAndReturned == last.raised = NoExc /\ Cardinality(CommitEvents) >= 2

\* One session is opened, by the outermost call as its first step; nothing
\* closes it before the outermost call has committed, which closes it as its
\* last step; the manager then holds no session and nothing is uncommitted
OneSessionOpenedAndClosed ==
    /\ CountEv(last.trace, "open") = 1 /\ last.trace[1].ev = "open"
    /\ CountEv(last.trace, "close") = 1
    /\ last.trace[Len(last.trace)].ev = "close"
    /\ last.trace[Len(last.trace) - 1].ev = "commit"
    /\ ~sess.active
    /\ sess.tx = db /\ sess.new = EmptyStore

\* C15: when wrapped calls nest and return, only the outermost opens a session,
\* the nested ones use it and leave it open, and the outermost commits, closes
\* the session and leaves the manager without an active session.
C15_NestedCallsShareSession == NestedAndReturned => OneSessionOpenedAndClosed

\* The same for calls made while the manager holds no session
NestedFromNoSession ==
    (NestedAndReturned /\ CountEv(last.trace, "open") = 1) => OneSessionOpenedAndClosed

\* The wrapped operations a user calls
WrappedOps ==
    {"setup_house", "add_remote_house", "add_local_house", "update_house",
     "remove_house", "get_part", "get_part_info", "get_house_name_list",
     "get_part_name_list"}

\* C16: after every top-level wrapped call, returned or raised, the manager
\* holds no session and nothing is left uncommitted in one: the changes were
\* committed or rolled back, and the next call opens a session of its own.
C16_SessionReleasedOnEveryExit ==
    last.op \in WrappedOps
        => /\ ~sess.active
           /\ sess.new = EmptyStore
           /\ sess.tx = db

\* The part of it the code keeps: a call that opened a session and returned
SessionReleasedOnReturn ==
    (last.op \in WrappedOps /\ last.raised = NoExc /\ CountEv(last.trace, "open") = 1)
        => /\ ~sess.active
           /\ sess.new = EmptyStore
           /\ sess.tx = db

\* The steps of the last call that are events of the given kinds
Steps(kinds) == { k \in 1..Len(last.trace) : last.trace[k].ev \in kinds }

Before(earlier, later) == \A i \in earlier, j \in later : i < j

\* add_remote_house has run in the last call, on its own or inside setup_house
AddRemoteRan ==
    \/ last.op = "add_remote_house"
    \/ last.op = "setup_house" /\ Steps({"query_house"}) # {}

\* The order of the steps of a run of add_remote_house
StepsInOrder ==
    AddRemoteRan
        => /\ Cardinality(Steps({"query_house"})) = 1
           /\ Before(Steps({"query_house"}), Steps({"rmtree", "clone"}))
           /\ Before(Steps({"rmtree"}), Steps({"clone"}))
           /\ Before(Steps({"rmtree", "clone"}), Steps({"scan", "warning"}))
           /\ Before(Steps({"scan", "import", "error", "add_part"}), Steps({"add_house"}))
           /\ Steps({"add_house"}) # {} => (last.raised = NoExc /\ Steps({"scan"}) # {})
           /\ last.raised = NoExc => Cardinality(Steps({"add_house"})) = 1
           /\ last.raised = "HouseNameRepeatError"
                 => Steps({"rmtree", "clone", "clone_failed", "scan", "add_house"}) = {}
           /\ (last.op = "add_remote_house" /\ Registered(last.pre.houses, last.args[1]))
                 => last.raised = "HouseNameRepeatError"

\* A call that fails the check of the name leaves the disk as it was
NameCheckKeepsDisk ==
    (last'.op = "add_remote_house" /\ last'.raised = "HouseNameRepeatError") => fs' = fs

\* C17: a run of add_remote_house checks the name, then fetches (wiping the
\* cache directory of the name first), then scans, then adds the house row; the
\* row is added only when the scan has returned; when the check of the name
\* fails nothing is fetched and the disk is left as it was.
C17_AddRemoteStepOrder == []StepsInOrder /\ [][NameCheckKeepsDisk]_vars

C17_Witness ==
    /\ last.op = "add_remote_house" /\ last.raised = NoExc
    /\ Steps({"rmtree"}) # {} /\ Steps({"add_part"}) # {}
    /\ Registered(db.houses, last.args[1])

\* The scan of the last call found that the house directory does not exist
ScanFoundNoDir == Steps({"warning"}) # {}

\* C18: a scan for a house whose directory does not exist registers no part
\* and raises nothing, and when the calling operation has completed the house
\* row is in the store, with no part row of that house; so it is for
\* update_house of a local house whose directory was removed.
C18_MissingDirScansNothing ==
    ScanFoundNoDir
        => /\ last.raised = NoExc
           /\ Steps({"import", "add_part"}) = {}
           /\ Registered(db.houses, ScannedHouse)
           /\ by_house_name(db.parts, ScannedHouse) = <<>>

\* The same, for calls that found no part of the house pending in the session
MissingDirScanAddsNothing ==
    (ScanFoundNoDir /\ by_house_name(last.pre_new, ScannedHouse) = <<>>)
        => /\ last.raised = NoExc
           /\ Steps({"import", "add_part"}) = {}
           /\ Registered(db.houses, ScannedHouse)
           /\ by_house_name(db.parts, ScannedHouse) = <<>>

\* C19: when update_house(name) of a remote house fails because the fetch
\* fails, get_part_name_list(house=name) called next returns the names the
\* house had before the call, and those rows are the ones left committed.
C19_FailedUpdateKeepsParts ==
    (last.op = "update_house" /\ FailedFetches # {})
        => /\ last.raised = "RuntimeError"
           /\ get_part_name_list(Cur, last.args[1], NULL).list
                 = names_of(by_house_name(last.pre.parts, last.args[1]))
           /\ by_house_name(get_part_name_list(Cur, last.args[1], NULL).m.db.parts,
                            last.args[1])
                 = by_house_name(last.pre.parts, last.args[1])

\* C20: after any completed call every committed part row belongs to a house
\* that has a committed house row.
C20_PartsBelongToHouses ==
    \A i \in 1..Len(db.parts) : Registered(db.houses, db.parts[i].house_name)

\* The rows of the houses other than name
OtherHouses(houses, name) == SelectSeq(houses, LAMBDA r : r.name # name)

OtherParts(parts, name) == SelectSeq(parts, LAMBDA r : r.house_name # name)

\* What update_house(name) and remove_house(name) leave as it was before the
\* call: the rows of the other houses, for update_house the house row of name,
\* and everything when remove_house is given a name that is not registered
FrameKept ==
    /\ OtherHouses(sess.tx.houses, last.args[1]) = OtherHouses(last.pre.houses, last.args[1])
    /\ OtherParts(sess.tx.parts, last.args[1]) = OtherParts(last.pre.parts, last.args[1])
    /\ last.raised = NoExc => db = sess.tx
    /\ last.op = "update_house"
          => by_name(sess.tx.houses, last.args[1]) = by_name(last.pre.houses, last.args[1])
    /\ (last.op = "remove_house" /\ ~Registered(last.pre.houses, last.args[1]))
          => (last.raised = NoExc /\ sess.tx = last.pre)

\* C21: update_house(name) and remove_house(name) change no house row and no
\* part row of another house, update_house does not change the house row of
\* name, and remove_house of a name that is not registered raises nothing and
\* changes nothing.
C21_UpdateAndRemoveFrame ==
    last.op \in {"update_house", "remove_house"} => FrameKept

\* The same, for calls that found nothing pending in the session and no part
\* row of name without its house row
FrameKeptFromNothingPending ==
    (/\ last.op \in {"update_house", "remove_house"}
     /\ last.pre_new = <<>>
     /\ (Registered(last.pre.houses, last.args[1])
            \/ by_house_name(last.pre.parts, last.args[1]) = <<>>))
        => FrameKept

====
